---- MODULE Spec2Model ----
(***************************************************************************)
(* Model of apod_desktop.py: one process run is the straight-line body of  *)
(* main(), split at every point where it touches the outside world (the    *)
(* file system, the sqlite store, the network, the desktop).  Runs follow  *)
(* one another over a persistent file system and store; a run can be       *)
(* killed, or die of an unhandled exception, at any of these points.       *)
(*                                                                         *)
(* Strings are TLA+ strings (Len, \o and SubSeq apply to them); byte       *)
(* strings of HTTP bodies and files are strings too.                       *)
(***************************************************************************)
EXTENDS Integers, Sequences, FiniteSets, TLC

(* ------------------------------ bounds -------------------------------- *)

\* number of process runs explored
MaxRuns == 3

(* --------------------------- the environment -------------------------- *)

\* directories that exist on the machine (os.path.isdir is true of them)
ExistingDirs == {"C:\\apod", "."}

\* values given as first command-line argument
DirArgs == ExistingDirs \cup {"C:\\none", "Z"}

\* values given as second command-line argument
DateArgs == {"2022-03-11", "2022-3-1", "2022-02-30", "22-03-11", "2022/03/11",
             "0000-01-01"}

\* command lines: sys.argv, program name first
Argvs ==
    {<<"apod_desktop.py">>}
      \cup {<<"apod_desktop.py", d>> : d \in DirArgs}
      \cup {<<"apod_desktop.py", d, t>> : d \in {"C:\\apod", "C:\\none"}, t \in DateArgs}

\* image URLs the APOD service may answer with; two share a basename
Urls == {"https://x/a/img.jpg", "https://y/b/img.jpg", "https://x/sun.png"}

\* bodies the image server may answer with (no body is a prefix of another)
Bodies == {"A", "BB"}

\* readings of the system clock
Clock ==
    {[year |-> 2022, month |-> 4, day |-> 7,
      hour |-> 9, minute |-> 5, second |-> 3, microsecond |-> 0],
     [year |-> 2026, month |-> 11, day |-> 5,
      hour |-> 0, minute |-> 2, second |-> 7, microsecond |-> 122263]}

(* --------------------------- string helpers --------------------------- *)

\* s[i] of Python, 1-based; "" outside the string
Ch(s, i) == IF i >= 1 /\ i <= Len(s) THEN SubSeq(s, i, i) ELSE ""

Digits == {"0", "1", "2", "3", "4", "5", "6", "7", "8", "9"}

DigitVal(c) == CHOOSE d \in 0..9 : SubSeq("0123456789", d + 1, d + 1) = c

DigitStr(d) == SubSeq("0123456789", d + 1, d + 1)

AllDigits(s) == \A i \in 1..Len(s) : Ch(s, i) \in Digits

RECURSIVE ToInt(_)
ToInt(s) ==
    IF Len(s) = 0 THEN 0
    ELSE 10 * ToInt(SubSeq(s, 1, Len(s) - 1)) + DigitVal(Ch(s, Len(s)))

\* '%0<w>d' % n
RECURSIVE Pad(_, _)
Pad(n, w) == IF w = 0 THEN "" ELSE Pad(n \div 10, w - 1) \o DigitStr(n % 10)

(* ------------------------ library functions --------------------------- *)

\* os.path.isdir
isdir(p) == p \in ExistingDirs

\* os.path.basename: what follows the last path separator
basename(p) ==
    LET seps == {i \in 1..Len(p) : Ch(p, i) \in {"/", "\\"}}
        last == IF seps = {} THEN 0 ELSE CHOOSE i \in seps : \A j \in seps : j <= i
    IN  IF last = Len(p) THEN "" ELSE SubSeq(p, last + 1, Len(p))

\* os.path.join(a, b) for a relative b
join(a, b) ==
    IF Len(a) > 0 /\ Ch(a, Len(a)) \in {"/", "\\"} THEN a \o b ELSE a \o "\\" \o b

\* hashlib.sha256(data).hexdigest(): injective on the data
sha256hex(data) == "sha256:" \o data

IsLeap(y) == (y % 4 = 0 /\ y % 100 # 0) \/ y % 400 = 0

DaysInMonth(y, m) ==
    IF m = 2 THEN (IF IsLeap(y) THEN 29 ELSE 28)
    ELSE IF m \in {4, 6, 9, 11} THEN 30 ELSE 31

\* texts the %m directive of strptime matches: 1[0-2]|0[1-9]|[1-9]
MonthTexts ==
    {"10", "11", "12"} \cup {"0" \o DigitStr(d) : d \in 1..9} \cup {DigitStr(d) : d \in 1..9}

\* texts the %d directive matches: 3[01]|[12]\d|0[1-9]|[1-9]| [1-9]
DayTexts ==
    {"30", "31"} \cup {DigitStr(a) \o DigitStr(b) : a \in 1..2, b \in 0..9}
      \cup {"0" \o DigitStr(d) : d \in 1..9} \cup {DigitStr(d) : d \in 1..9}
      \cup {" " \o DigitStr(d) : d \in 1..9}

\* the day text with a leading blank dropped
DayNumber(t) == IF Ch(t, 1) = " " THEN ToInt(SubSeq(t, 2, Len(t))) ELSE ToInt(t)

\* datetime.strptime(s, '%Y-%m-%d') returns (TRUE) or raises ValueError
\* (FALSE): four digits, '-', a month text, '-', a day text, nothing after;
\* then the values must make a date
strptime_ok(s) ==
    /\ Len(s) >= 8
    /\ AllDigits(SubSeq(s, 1, 4))
    /\ Ch(s, 5) = "-"
    /\ \E ml \in 1..2 :
         /\ SubSeq(s, 6, 5 + ml) \in MonthTexts
         /\ Ch(s, 6 + ml) = "-"
         /\ 7 + ml <= Len(s)
         /\ SubSeq(s, 7 + ml, Len(s)) \in DayTexts
         /\ LET y == ToInt(SubSeq(s, 1, 4))
                m == ToInt(SubSeq(s, 6, 5 + ml))
                d == DayNumber(SubSeq(s, 7 + ml, Len(s)))
            IN  y >= 1 /\ d <= DaysInMonth(y, m)

\* datetime.isoformat()
isoformat(dt) ==
    Pad(dt.year, 4) \o "-" \o Pad(dt.month, 2) \o "-" \o Pad(dt.day, 2) \o "T"
      \o Pad(dt.hour, 2) \o ":" \o Pad(dt.minute, 2) \o ":" \o Pad(dt.second, 2)
      \o (IF dt.microsecond = 0 THEN "" ELSE "." \o Pad(dt.microsecond, 6))

\* datetime.strftime("%Y-/%m-/%d %H:%M:%S")
strftime(dt) ==
    Pad(dt.year, 4) \o "-/" \o Pad(dt.month, 2) \o "-/" \o Pad(dt.day, 2) \o " "
      \o Pad(dt.hour, 2) \o ":" \o Pad(dt.minute, 2) \o ":" \o Pad(dt.second, 2)

(* ------------------------------- state -------------------------------- *)

VARIABLES
    runs,            \* process runs started so far
    pc,              \* position of the current run in main(), or how it ended
    argv,            \* sys.argv of the current run
    diag,            \* the error line the run printed, "" if none
    image_dir_path, db_path, apod_date,                      \* locals of main
    image_url, image_sha256, image_size, image_path, image_msg,
    in_db,           \* what image_already_in_db returned in this run
    requests,        \* HTTP requests issued by the current run, in order
    writes,          \* paths the current run opened for writing
    db,              \* store files: path of the .db file -> rows of table apod
    files,           \* image files: path -> bytes on disk
    wallpaper        \* what the desktop shows: path given and bytes found there

locals == <<image_dir_path, db_path, apod_date, image_url, image_sha256,
            image_size, image_path, image_msg, in_db>>

world == <<db, files, wallpaper>>

vars == <<runs, pc, argv, diag, locals, requests, writes, world>>

Ended == {"completed", "aborted", "crashed"}

Init ==
    /\ runs = 0
    /\ pc = "init"
    /\ argv = <<"apod_desktop.py">>
    /\ diag = ""
    /\ image_dir_path = "" /\ db_path = "" /\ apod_date = ""
    /\ image_url = "" /\ image_sha256 = "" /\ image_size = 0
    /\ image_path = "" /\ image_msg = ""
    /\ in_db = FALSE
    /\ requests = <<>>
    /\ writes = {}
    /\ db = [p \in {} |-> <<>>]
    /\ files = [p \in {} |-> ""]
    /\ wallpaper = [path |-> "", bytes |-> ""]

(* -------------------------- pure parts of main ------------------------ *)

\* get_image_dir_path without the isdir test
get_image_dir_path_no_isdir(a) ==
    IF Len(a[2]) >= 2 THEN "" ELSE "Error: Missing path parameter."

\* get_image_dir_path: the error line it prints, "" when it returns argv[1]
\* (a holds sys.argv with the program name first, so Python's argv[1] is a[2])
get_image_dir_path(a) ==
    IF Len(a[2]) >= 2
    THEN IF isdir(a[2]) THEN "" ELSE "Error: Non-existent directory"
    ELSE "Error: Missing path parameter."

\* get_apod_date with a date parameter: the error line, "" when accepted
get_apod_date(a) ==
    IF strptime_ok(a[3]) THEN "" ELSE "Error: Incorrect date format; Should be YYYY-MM-DD"

\* get_image_path
get_image_path(url, dir_path) == dir_path \o "\\" \o basename(url)

\* image_already_in_db that never finds a row
image_already_in_db_never(rows, hash) == FALSE

\* image_already_in_db: SELECT ... WHERE image_sha256=? finds a row
image_already_in_db(rows, hash) ==
    \E i \in 1..Len(rows) : rows[i].image_sha256 = hash

\* main with the file write outside the if
AfterCheckAlwaysSave(found) == "open"

\* main with the insert but not the file write inside the if
AfterCheckSkipSave(found) == IF found THEN "setbg" ELSE "insert"

\* main, lines 58-60: where the run goes once the store has been asked
AfterCheck(found) == IF found THEN "setbg" ELSE "open"

\* rows of the store of the current run
Rows == IF db_path \in DOMAIN db THEN db[db_path] ELSE <<>>

(* ------------------------------ actions ------------------------------- *)

\* the program is started with some command line
Invoke(a) ==
    /\ pc \in Ended \cup {"init"}
    /\ runs < MaxRuns
    /\ runs' = runs + 1
    /\ argv' = a
    /\ pc' = "dir"
    /\ diag' = ""
    /\ image_dir_path' = "" /\ db_path' = "" /\ apod_date' = ""
    /\ image_url' = "" /\ image_sha256' = "" /\ image_size' = 0
    /\ image_path' = "" /\ image_msg' = ""
    /\ in_db' = FALSE
    /\ requests' = <<>>
    /\ writes' = {}
    /\ UNCHANGED world

\* main, lines 34-35: get_image_dir_path and the path of the store
GetImageDirPath ==
    /\ pc = "dir"
    /\ IF Len(argv) < 2
       THEN \* argv[1] raises IndexError
            /\ pc' = "crashed"
            /\ UNCHANGED <<diag, image_dir_path, db_path>>
       ELSE IF get_image_dir_path(argv) = ""
       THEN /\ image_dir_path' = argv[2]
            /\ db_path' = join(argv[2], "apod_images.db")
            /\ pc' = "date"
            /\ UNCHANGED diag
       ELSE /\ diag' = get_image_dir_path(argv)
            /\ pc' = "aborted"
            /\ UNCHANGED <<image_dir_path, db_path>>
    /\ UNCHANGED <<runs, argv, apod_date, image_url, image_sha256, image_size,
                   image_path, image_msg, in_db, requests, writes, world>>

\* main, line 38: get_apod_date
GetApodDate ==
    /\ pc = "date"
    /\ IF Len(argv) >= 3
       THEN IF get_apod_date(argv) = ""
            THEN /\ apod_date' = argv[3]
                 /\ pc' = "create_db"
                 /\ UNCHANGED diag
            ELSE /\ diag' = get_apod_date(argv)
                 /\ pc' = "aborted"
                 /\ UNCHANGED apod_date
       ELSE /\ \E now \in Clock : apod_date' = isoformat(now)
            /\ pc' = "create_db"
            /\ UNCHANGED diag
    /\ UNCHANGED <<runs, argv, image_dir_path, db_path, image_url, image_sha256,
                   image_size, image_path, image_msg, in_db, requests, writes, world>>

\* main, line 41: create_image_db; sqlite cannot create a file in a
\* directory that does not exist
CreateImageDb ==
    /\ pc = "create_db"
    /\ IF isdir(image_dir_path)
       THEN /\ db' = [p \in DOMAIN db \cup {db_path} |->
                        IF p \in DOMAIN db THEN db[p] ELSE <<>>]
            /\ pc' = "info"
       ELSE /\ pc' = "crashed"
            /\ UNCHANGED db
    /\ UNCHANGED <<runs, argv, diag, locals, requests, writes, files, wallpaper>>

\* main, lines 44-48: get_apod_info, then the URL and its digest
GetApodInfo ==
    /\ pc = "info"
    /\ \E url \in Urls :
         /\ image_url' = url
         /\ image_sha256' = sha256hex(url)
    /\ requests' = Append(requests, [to |-> "apod", date |-> apod_date])
    /\ pc' = "size"
    /\ UNCHANGED <<runs, argv, diag, image_dir_path, db_path, apod_date, image_size,
                   image_path, image_msg, in_db, writes, world>>

\* main, lines 49-50: a first GET of the image measures it; the local path
GetImageSize ==
    /\ pc = "size"
    /\ \E body \in Bodies : image_size' = Len(body)
    /\ image_path' = get_image_path(image_url, image_dir_path)
    /\ requests' = Append(requests, [to |-> image_url, date |-> ""])
    /\ pc' = "download"
    /\ UNCHANGED <<runs, argv, diag, image_dir_path, db_path, apod_date, image_url,
                   image_sha256, image_msg, in_db, writes, world>>

\* main, line 51: download_apod_image, a second GET of the image
DownloadApodImage ==
    /\ pc = "download"
    /\ \E body \in Bodies : image_msg' = body
    /\ requests' = Append(requests, [to |-> image_url, date |-> ""])
    /\ pc' = "check"
    /\ UNCHANGED <<runs, argv, diag, image_dir_path, db_path, apod_date, image_url,
                   image_sha256, image_size, image_path, in_db, writes, world>>

\* main, line 58: image_already_in_db
ImageAlreadyInDb ==
    /\ pc = "check"
    /\ in_db' = image_already_in_db(Rows, image_sha256)
    /\ pc' = AfterCheck(in_db')
    /\ UNCHANGED <<runs, argv, diag, image_dir_path, db_path, apod_date, image_url,
                   image_sha256, image_size, image_path, image_msg, requests,
                   writes, world>>

\* save_image_file, line 177: open(path, 'wb') creates or empties the file
SaveImageFileOpen ==
    /\ pc = "open"
    /\ files' = [p \in DOMAIN files \cup {image_path} |->
                   IF p = image_path THEN "" ELSE files[p]]
    /\ writes' = writes \cup {image_path}
    /\ pc' = "write"
    /\ UNCHANGED <<runs, argv, diag, locals, requests, db, wallpaper>>

\* save_image_file, lines 178-179: the bytes reach the file, which is closed
SaveImageFileWrite ==
    /\ pc = "write"
    /\ files' = [files EXCEPT ![image_path] = image_msg]
    /\ pc' = "insert"
    /\ UNCHANGED <<runs, argv, diag, locals, requests, writes, db, wallpaper>>

\* main, line 60: add_image_to_db
AddImageToDb ==
    /\ pc = "insert"
    /\ \E now \in Clock :
         db' = [db EXCEPT ![db_path] =
                  Append(@, [image_location |-> image_path,
                             image_size |-> image_size,
                             image_sha256 |-> image_sha256,
                             time_added |-> strftime(now)])]
    /\ pc' = "setbg"
    /\ UNCHANGED <<runs, argv, diag, locals, requests, writes, files, wallpaper>>

\* main, line 65: set_desktop_background_image; the desktop shows what the
\* file holds (nothing when there is no such file)
SetDesktopBackgroundImage ==
    /\ pc = "setbg"
    /\ wallpaper' = [path |-> image_path,
                     bytes |-> IF image_path \in DOMAIN files
                               THEN files[image_path] ELSE ""]
    /\ pc' = "completed"
    /\ UNCHANGED <<runs, argv, diag, locals, requests, writes, db, files>>

\* the process dies where it stands: killed, or an unhandled exception of a
\* network, file or store call
Crash ==
    /\ pc \notin Ended \cup {"init"}
    /\ pc' = "crashed"
    /\ UNCHANGED <<runs, argv, diag, locals, requests, writes, world>>

\* the process dies while file.write is under way: part of the bytes arrived
CrashMidWrite ==
    /\ pc = "write"
    /\ \E n \in 1..(Len(image_msg) - 1) :
         files' = [files EXCEPT ![image_path] = SubSeq(image_msg, 1, n)]
    /\ pc' = "crashed"
    /\ UNCHANGED <<runs, argv, diag, locals, requests, writes, db, wallpaper>>

Next ==
    \/ \E a \in Argvs : Invoke(a)
    \/ GetImageDirPath
    \/ GetApodDate
    \/ CreateImageDb
    \/ GetApodInfo
    \/ GetImageSize
    \/ DownloadApodImage
    \/ ImageAlreadyInDb
    \/ SaveImageFileOpen
    \/ SaveImageFileWrite
    \/ AddImageToDb
    \/ SetDesktopBackgroundImage
    \/ Crash
    \/ CrashMidWrite

Spec == Init /\ [][Next]_vars

TypeOK ==
    /\ runs \in 0..MaxRuns
    /\ pc \in Ended \cup {"init", "dir", "date", "create_db", "info", "size", "download",
                          "check", "open", "write", "insert", "setbg"}
    /\ argv \in Argvs
    /\ in_db \in BOOLEAN

(* --------------------------- properties ------------------------------- *)

\* all rows of a store file, as a set of positions
RowIds(p) == 1..Len(db[p])

\* the run has asked the store and is past the if of main
PastCheck == pc \in {"setbg", "completed"}

\* s has the shape dddd-dd-dd and names a calendar date
StrictYMD(s) ==
    /\ Len(s) = 10
    /\ AllDigits(SubSeq(s, 1, 4)) /\ AllDigits(SubSeq(s, 6, 7)) /\ AllDigits(SubSeq(s, 9, 10))
    /\ Ch(s, 5) = "-" /\ Ch(s, 8) = "-"
    /\ ToInt(SubSeq(s, 1, 4)) >= 1
    /\ ToInt(SubSeq(s, 6, 7)) \in 1..12
    /\ ToInt(SubSeq(s, 9, 10)) \in 1..DaysInMonth(ToInt(SubSeq(s, 1, 4)), ToInt(SubSeq(s, 6, 7)))

\* C1: after any sequence of runs, crashed ones included, no store holds two
\* rows with the same image_sha256, and the run only stands before the insert
\* when the existence check for its hash has returned false
C1_OneRecordPerHash ==
    /\ \A p \in DOMAIN db : \A i, j \in RowIds(p) :
         db[p][i].image_sha256 = db[p][j].image_sha256 => i = j
    /\ pc = "insert" => ~in_db /\ ~image_already_in_db(Rows, image_sha256)

\* C1 witness: a completed cache-hit run over a store that holds two rows
C1_Witness ==
    /\ pc = "completed" /\ in_db /\ runs = 3
    /\ Len(Rows) = 2

\* C2: at the end of every completed run the file handed to the desktop holds
\* the bytes downloaded in that run
C2_BackgroundShowsDownloaded ==
    pc = "completed" =>
        /\ wallpaper.path = image_path
        /\ wallpaper.bytes = image_msg

\* C3: the hash used for the existence check and stored in the row is the
\* digest of the downloaded bytes
C3_HashIsDigestOfBytes ==
    pc \in {"check", "open", "write", "insert", "setbg", "completed"} =>
        image_sha256 = sha256hex(image_msg)

\* C4 as stated: in a run whose hash is already in the store the file is
\* still written, no second row is inserted, and the check is true after
C4_FileWrittenOnCacheHit ==
    (pc = "completed" /\ in_db) =>
        /\ image_path \in writes
        /\ Cardinality({i \in 1..Len(Rows) : Rows[i].image_sha256 = image_sha256}) = 1
        /\ image_already_in_db(Rows, image_sha256)

\* C4 amended: in a run whose hash is already in the store no file is opened
\* for writing, the store keeps exactly one row for the hash, and the check
\* is true after as it was before; the if gates the write and the insert
C4_CacheHitWritesNothing ==
    (PastCheck /\ in_db) =>
        /\ writes = {}
        /\ Cardinality({i \in 1..Len(Rows) : Rows[i].image_sha256 = image_sha256}) = 1
        /\ image_already_in_db(Rows, image_sha256)

\* C4 witness: a completed cache-hit run that downloaded other bytes than
\* the file holds
C4_Witness ==
    /\ pc = "completed" /\ in_db /\ writes = {}
    /\ image_path \in DOMAIN files /\ files[image_path] # image_msg

\* C5: when the directory argument names no existing directory the run ends
\* in the resolver: no later step is reached, no HTTP request is issued and
\* no store file exists under that directory
C5_NoDirNoEffect ==
    (pc # "init" /\ Len(argv) >= 2 /\ ~isdir(argv[2])) =>
        /\ pc \in {"dir", "aborted", "crashed"}
        /\ requests = <<>>
        /\ join(argv[2], "apod_images.db") \notin DOMAIN db
        /\ image_dir_path = ""

\* C5 witness: a run aborted for a directory that does not exist, after an
\* earlier run has created a store elsewhere
C5_Witness ==
    /\ pc = "aborted" /\ diag = "Error: Non-existent directory"
    /\ Len(argv[2]) >= 2 /\ ~isdir(argv[2])
    /\ DOMAIN db # {}

\* C6: a run given a date that is not a strict YYYY-MM-DD date issues no
\* HTTP request
C6_BadDateNoRequest ==
    (pc # "init" /\ Len(argv) >= 3 /\ ~StrictYMD(argv[3])) => requests = <<>>

\* C7: the date the resolver returns when none is given, and the date
\* parameter of every request to the APOD endpoint, is a YYYY-MM-DD string
C7_DateIsYMD ==
    /\ (Len(argv) = 2 /\ pc \notin {"init", "dir", "date"} /\ image_dir_path # "")
           => StrictYMD(apod_date)
    /\ \A i \in 1..Len(requests) :
           requests[i].to = "apod" => StrictYMD(requests[i].date)

\* C8: the size of a row just inserted is the length of the bytes the run
\* wrote at the row's location
C8_SizeIsWrittenLength ==
    (pc = "setbg" /\ ~in_db /\ Rows # <<>>) =>
        /\ Rows[Len(Rows)].image_location \in DOMAIN files
        /\ Rows[Len(Rows)].image_size = Len(files[Rows[Len(Rows)].image_location])

\* C9: a first argument that names an existing directory is never rejected
\* by get_image_dir_path and is returned unchanged
C9_ExistingDirAccepted ==
    (pc \notin {"init", "dir"} /\ Len(argv) >= 2 /\ isdir(argv[2])) =>
        /\ diag \notin {"Error: Missing path parameter.", "Error: Non-existent directory"}
        /\ image_dir_path = argv[2]

\* C10 as stated: in every state a run leaves behind, each row's location
\* holds a completely written file (a whole body, not an emptied or partly
\* written file)
C10_RecordsHaveCompleteFiles ==
    pc \in Ended =>
        \A p \in DOMAIN db : \A i \in RowIds(p) :
            /\ db[p][i].image_location \in DOMAIN files
            /\ files[db[p][i].image_location] \in Bodies

\* C10 amended: a row is only ever inserted by a run that has opened the
\* row's location for writing and completed the write, the file holding the
\* whole downloaded body at that moment
C10_InsertFollowsCompleteWrite ==
    [][(\E p \in DOMAIN db : p \in DOMAIN db' /\ Len(db'[p]) > Len(db[p]))
         => /\ db_path \in DOMAIN db
            /\ db'[db_path] = Append(db[db_path], db'[db_path][Len(db'[db_path])])
            /\ db'[db_path][Len(db'[db_path])].image_location = image_path
            /\ image_path \in writes
            /\ image_path \in DOMAIN files
            /\ files[image_path] = image_msg]_vars

\* C10 witness: a run has crashed while rewriting the file of a row inserted
\* by an earlier run, and the store is as that run left it
C10_Witness ==
    /\ pc = "crashed" /\ writes # {}
    /\ Len(Rows) = 1
    /\ Rows[1].image_location = image_path
    /\ Rows[1].image_sha256 # image_sha256
    /\ files[image_path] \notin Bodies

====
